---- MODULE Spec2Model ----
(***************************************************************************)
(* A model of examples/benchmark.py: the command line options, the module  *)
(* level loop over the benchmark scenarios, runOneTest (scenario set-up,   *)
(* Context creation, the adaptive timing loop, the result lines) and       *)
(* timeIntegration.                                                        *)
(*                                                                         *)
(* Units.  Wall-clock readings (datetime.now()) are integers counting      *)
(* clock ticks, TicksPerSecond ticks to the second, so a machine whose     *)
(* clock advances in steps of 1/TicksPerSecond s.  `time` (the float       *)
(* returned by timeIntegration) is kept in ticks; options.seconds is a     *)
(* whole number of seconds.  Float arithmetic is taken as exact, int(x) as *)
(* truncation of the exact quotient.  Step sizes are in femtoseconds (the  *)
(* unit of the 'Step Size' line), hydrogen masses and constraints are the  *)
(* literals of the source kept as strings.                                 *)
(***************************************************************************)
EXTENDS Integers, Sequences, FiniteSets, TLC

VARIABLES
    args,       \* the parsed command line (argparse Namespace)
    pc,         \* position of the script
    remaining,  \* scenarios the module-level code has still to run
    invoked,    \* scenarios runOneTest has been called for, in call order
    frame,      \* locals of the running runOneTest call
    measured,   \* the last timeIntegration call: arguments, clock readings, result
    printed,    \* lines printed by the current runOneTest call / its handler
    exc         \* the exception in flight, "None" when there is none

vars == <<args, pc, remaining, invoked, frame, measured, printed, exc>>

----------------------------------------------------------------------------
(* Bounds of the model *)

\* clock resolution of the modelled machine, ticks per second
TicksPerSecond == 4
\* largest --seconds value drawn (whole seconds)
MaxSeconds == 3
\* 1/c of the proportionality hypothesis: a measurement of `steps` steps
\* takes at least steps/CostDen ticks
CostDen == 20

(* Program constants *)

SecondsPerDay == 86400
FirstSteps == 20
DefaultInitialSteps == 5
MultiDeviceInitialSteps == 250
Temperature == 300

TicksPerDay == SecondsPerDay * TicksPerSecond
MicrosPerTick == 1000000 \div TicksPerSecond

\* no measurement is started with more steps than this
MaxSteps == CostDen * MaxSeconds * TicksPerSecond
\* longest sub-day interval a measurement is drawn from, in ticks
MaxElapsed == MaxSeconds * TicksPerSecond

----------------------------------------------------------------------------
(* The command line: parser.add_argument(...) choices and defaults *)

TestChoices ==
    <<"gbsa", "rf", "pme", "apoa1rf", "apoa1pme", "apoa1ljpme", "amoebagk",
      "amoebapme", "amber20-dhfr", "amber20-factorix", "amber20-cellulose",
      "amber20-stmv">>

DefaultTests ==
    <<"gbsa", "rf", "pme", "apoa1rf", "apoa1pme", "apoa1ljpme", "amoebagk",
      "amoebapme">>

Range(s) == {s[i] : i \in 1..Len(s)}

EnsembleChoices == {"NPT", "NVE", "NVT"}

PlatformChoices == {"Reference", "CUDA", "OpenCL"}

PrecisionChoices == {"single", "double"}

\* --device: absent (None) or a string, kept as its sequence of characters
NoDevice == [given |-> FALSE, chars |-> <<>>]
DeviceChoices ==
    {NoDevice}
    \cup {[given |-> TRUE, chars |-> c] :
            c \in {<<"0">>, <<"0", ",", "1">>, <<"0", " ", "1">>}}

SecondsChoices == {0, 1, MaxSeconds}

Options ==
    [test : Range(TestChoices) \cup {"None"},
     ensemble : EnsembleChoices,
     heavy : BOOLEAN,
     platform : PlatformChoices,
     device : DeviceChoices,
     precision : PrecisionChoices,
     seconds : SecondsChoices]

----------------------------------------------------------------------------
(* timeIntegration *)

\* end - start of two datetimes: a timedelta normalised to
\* days, 0 <= seconds < 86400, 0 <= microseconds < 1000000
Timedelta(start, end) ==
    LET d == end - start
        r == d % TicksPerDay
    IN  [days |-> d \div TicksPerDay,
         seconds |-> r \div TicksPerSecond,
         microseconds |-> (r % TicksPerSecond) * MicrosPerTick]

\* elapsed.seconds + elapsed.microseconds*1e-6, in ticks
timeIntegration(start, end) ==
    LET elapsed == Timedelta(start, end)
    IN  elapsed.seconds * TicksPerSecond + elapsed.microseconds \div MicrosPerTick

----------------------------------------------------------------------------
(* runOneTest: creating the System and the integrator (lines 36-143) *)

explicit(testName) == testName \notin {"gbsa", "amoebagk"}

amoeba(testName) == testName \in {"amoebagk", "amoebapme"}

\* testName.startswith('apoa1'), over the names --test accepts
apoa1(testName) == testName \in {"apoa1rf", "apoa1pme", "apoa1ljpme"}

\* testName.startswith('amber'), over the names --test accepts
amber(testName) ==
    testName \in {"amber20-dhfr", "amber20-factorix", "amber20-cellulose",
                  "amber20-stmv"}

\* in 1/ps
friction(testName) == IF explicit(testName) THEN 1 ELSE 91

\* createSystem(...): the System the engine builds; hydrogenMass is the
\* keyword argument, "None" (the engine's default) when it is not passed
createSystem(method, constraints, hydrogenMass) ==
    [nonbondedMethod |-> method, constraints |-> constraints,
     hydrogenMass |-> hydrogenMass, barostats |-> 0]

MTSIntegrator(dt) ==
    [kind |-> "MTSIntegrator", dt |-> dt, thermostat |-> {}]

MTSLangevinIntegrator(temperature, fric, dt) ==
    [kind |-> "MTSLangevinIntegrator", dt |-> dt,
     thermostat |-> {<<temperature, fric>>}]

VerletIntegrator(dt) ==
    [kind |-> "VerletIntegrator", dt |-> dt, thermostat |-> {}]

LangevinIntegrator(temperature, fric, dt) ==
    [kind |-> "LangevinIntegrator", dt |-> dt,
     thermostat |-> {<<temperature, fric>>}]

LangevinMiddleIntegrator(temperature, fric, dt) ==
    [kind |-> "LangevinMiddleIntegrator", dt |-> dt,
     thermostat |-> {<<temperature, fric>>}]

\* lines 58-79: the amoeba scenarios
AmoebaScenario(testName, options) ==
    LET dt == 2
        method == IF explicit(testName) THEN "PME" ELSE "NoCutoff"
    IN  [dt |-> dt,
         constraints |-> "None",
         hydrogenMass |-> "None",
         system |-> createSystem(method, "None", "None"),
         integ |-> IF options.ensemble = "NVE"
                   THEN MTSIntegrator(dt)
                   ELSE MTSLangevinIntegrator(Temperature, friction(testName), dt)]

\* lines 80-96: the amber20-* scenarios
AmberScenario(testName, options) ==
    LET dt == 4
    IN  [dt |-> dt,
         constraints |-> "HBonds",
         hydrogenMass |-> "1.5 amu",
         system |-> createSystem("PME", "HBonds", "None"),
         integ |-> IF options.ensemble = "NVE"
                   THEN VerletIntegrator(dt)
                   ELSE LangevinMiddleIntegrator(Temperature, friction(testName), dt)]

\* lines 98-123: the nonbonded method of the remaining scenarios
StandardMethod(testName) ==
    IF apoa1(testName)
    THEN IF testName = "apoa1pme" THEN "PME"
         ELSE IF testName = "apoa1ljpme" THEN "LJPME"
         ELSE "CutoffPeriodic"
    ELSE IF explicit(testName)
    THEN IF testName = "pme" THEN "PME" ELSE "CutoffPeriodic"
    ELSE "CutoffNonPeriodic"

\* lines 124-139: step size (fs) of the remaining scenarios
StandardStepSize(options) == IF options.heavy THEN 5 ELSE 4

\* lines 124-139: hydrogen mass of the remaining scenarios
StandardHydrogenMass(options) == IF options.heavy THEN "4 amu" ELSE "1.5 amu"

\* the integrator built with the default 4 fs step whatever dt is
StandardIntegratorDefaultStep(testName, options, dt) ==
    IF options.ensemble = "NVE"
    THEN VerletIntegrator(4)
    ELSE IF options.heavy
    THEN LangevinIntegrator(Temperature, friction(testName), 4)
    ELSE LangevinMiddleIntegrator(Temperature, friction(testName), 4)

\* lines 124-139: integrator of the remaining scenarios
StandardIntegrator(testName, options, dt) ==
    IF options.ensemble = "NVE"
    THEN VerletIntegrator(dt)
    ELSE IF options.heavy
    THEN LangevinIntegrator(Temperature, friction(testName), dt)
    ELSE LangevinMiddleIntegrator(Temperature, friction(testName), dt)

\* lines 97-141: gbsa, rf, pme, apoa1*
StandardScenario(testName, options) ==
    LET dt == StandardStepSize(options)
        constraints == IF options.heavy THEN "AllBonds" ELSE "HBonds"
        hydrogenMass == StandardHydrogenMass(options)
    IN  [dt |-> dt,
         constraints |-> constraints,
         hydrogenMass |-> hydrogenMass,
         system |-> createSystem(StandardMethod(testName), constraints, hydrogenMass),
         integ |-> StandardIntegrator(testName, options, dt)]

\* lines 58-141
Scenario(testName, options) ==
    IF amoeba(testName) THEN AmoebaScenario(testName, options)
    ELSE IF amber(testName) THEN AmberScenario(testName, options)
    ELSE StandardScenario(testName, options)

\* lines 142-143: system.addForce(MonteCarloBarostat(...))
AddBarostat(system, options) ==
    IF options.ensemble = "NPT"
    THEN [system EXCEPT !.barostats = @ + 1]
    ELSE system

----------------------------------------------------------------------------
(* runOneTest: Context properties and creation (lines 145-160) *)

\* c in s, for a string s kept as its characters
Contains(chars, c) == \E i \in 1..Len(chars) : chars[i] = c

OnGpuPlatform(options) == options.platform \in {"CUDA", "OpenCL"}

\* lines 145-152: the properties dict; keys is the set of its keys
Properties(options) ==
    LET dev == options.device.given /\ OnGpuPlatform(options)
        \* options.precision is never None: argparse supplies 'single'
        prec == OnGpuPlatform(options)
    IN  [keys |-> (IF dev THEN {"DeviceIndex"} ELSE {})
                  \cup (IF prec THEN {"Precision"} ELSE {}),
         DeviceIndex |-> IF dev THEN options.device.chars ELSE <<>>,
         Precision |-> IF prec THEN options.precision ELSE ""]

\* the warm-up chosen from the device string alone, whatever the platform
InitialStepsAnyPlatform(options) ==
    IF options.device.given
       /\ (Contains(options.device.chars, ",") \/ Contains(options.device.chars, " "))
    THEN MultiDeviceInitialSteps
    ELSE DefaultInitialSteps

\* lines 146-150
InitialSteps(options) ==
    IF options.device.given /\ OnGpuPlatform(options)
       /\ (Contains(options.device.chars, ",") \/ Contains(options.device.chars, " "))
    THEN MultiDeviceInitialSteps
    ELSE DefaultInitialSteps

\* lines 157-160: Context(system, integ, platform[, properties])
CreateContext(system, integ, platform, properties) ==
    IF Cardinality(properties.keys) > 0
    THEN [system |-> system, integ |-> integ, platform |-> platform,
          withProperties |-> TRUE, properties |-> properties]
    ELSE [system |-> system, integ |-> integ, platform |-> platform,
          withProperties |-> FALSE,
          properties |-> [keys |-> {}, DeviceIndex |-> <<>>, Precision |-> ""]]

----------------------------------------------------------------------------
(* runOneTest: the timing loop and the result lines (lines 169-179) *)

\* the loop left only at the full target: time >= options.seconds
LoopDoneFullTarget(time, seconds) == time >= seconds * TicksPerSecond

\* line 172: time >= 0.5*options.seconds
LoopDone(time, seconds) == 2 * time >= seconds * TicksPerSecond

\* the extrapolation without the target in its second branch
ExtrapolatedStepsNoTarget(steps, time, seconds) ==
    (steps * TicksPerSecond) \div time

\* lines 174-177, for time > 0
ExtrapolatedSteps(steps, time, seconds) ==
    IF 2 * time < TicksPerSecond
    THEN (steps * TicksPerSecond) \div time
    ELSE (steps * seconds * TicksPerSecond) \div time

\* steps extrapolated after every measurement, the last one included
StepsAfterIterationAlways(steps, time, seconds) ==
    IF time = 0 THEN steps ELSE ExtrapolatedSteps(steps, time, seconds)

\* lines 172-177: the value of `steps` after the iteration that measured `time`
StepsAfterIteration(steps, time, seconds) ==
    IF LoopDone(time, seconds)
    THEN steps
    ELSE ExtrapolatedSteps(steps, time, seconds)

RECURSIVE Gcd(_, _)
Gcd(a, b) == IF b = 0 THEN a ELSE Gcd(b, a % b)

FsPerNs == 1000000

\* line 179: (dt*steps*86400/time).value_in_unit(unit.nanoseconds) as the
\* exact fraction num/den, for dt in fs and time in ticks, time > 0
NsPerDay(dt, steps, time) ==
    LET g == Gcd(SecondsPerDay, FsPerNs)
    IN  [num |-> dt * steps * (SecondsPerDay \div g) * TicksPerSecond,
         den |-> time * (FsPerNs \div g)]

\* a printed line: its format string and the values formatted into it
Line(text, vals) == [text |-> text, vals |-> vals]

StepSizeLine(dt) == Line("Step Size: %g fs", <<dt>>)

IntegratedLine(steps, time) ==
    Line("Integrated %d steps in %g seconds", <<steps, time>>)

NsPerDayLine(dt, steps, time) ==
    LET v == NsPerDay(dt, steps, time)
    IN  Line("%g ns/day", <<v.num, v.den>>)

----------------------------------------------------------------------------
(* State machine *)

NoFrame == [testName |-> "None"]

\* odd: whether the number of timeIntegration calls made so far is odd
NoMeasurement ==
    [valid |-> FALSE, odd |-> FALSE, firstSteps |-> 0, steps |-> 0,
     initialSteps |-> 0, elapsed |-> 0, time |-> 0]

\* readings of datetime.now() at line 13
ClockReadings == {0, TicksPerDay - 1}

\* true length of a measured interval, in ticks: nothing, a few ticks, a
\* second, half of and all of MaxSeconds seconds, or just over a day
ElapsedChoices ==
    {0, 1, 2, 3, TicksPerSecond, MaxElapsed \div 2, MaxElapsed, TicksPerDay + 1}

\* line 207: the scenarios to run
TestsToRun(options) ==
    IF options.test = "None" THEN DefaultTests ELSE <<options.test>>

\* lines 209-214: an exception leaving runOneTest is caught by the except
\* clause when the scenario list is run and is uncaught under --test
Raised(e) ==
    /\ exc' = e
    /\ pc' = IF args.test = "None" THEN "except" ELSE "abort"

\* ex.message: Python 3 exceptions carry `args`, not `message`
\* (the file is Python 3 only: f-strings at lines 84-85)
HasMessage(e) == FALSE

Init ==
    /\ args \in Options
    /\ pc = "main"
    /\ remaining = TestsToRun(args)
    /\ invoked = <<>>
    /\ frame = NoFrame
    /\ measured = NoMeasurement
    /\ printed = <<>>
    /\ exc = "None"

\* lines 34-169: runOneTest is called for the next scenario and sets up the
\* System, the integrator and the Context; the engine may refuse any of it
CallRunOneTest ==
    /\ pc = "main"
    /\ remaining # <<>>
    /\ LET testName == Head(remaining)
           s == Scenario(testName, args)
           system == AddBarostat(s.system, args)
           properties == Properties(args)
       IN  /\ invoked' = Append(invoked, testName)
           /\ remaining' = Tail(remaining)
           /\ measured' = NoMeasurement
           /\ \/ /\ frame' = [testName |-> testName,
                              dt |-> s.dt,
                              hydrogenMass |-> s.hydrogenMass,
                              system |-> system,
                              integ |-> s.integ,
                              initialSteps |-> InitialSteps(args),
                              context |-> CreateContext(system, s.integ,
                                                        args.platform, properties),
                              steps |-> FirstSteps,
                              time |-> 0]
                 /\ printed' = <<StepSizeLine(s.dt)>>
                 /\ pc' = "loop"
                 /\ exc' = exc
              \/ /\ frame' = NoFrame
                 /\ printed' = <<>>
                 /\ Raised("OpenMMException")
    /\ UNCHANGED args

\* lines 171-177: one iteration of the timing loop, the clock reading
\* `start` at line 13 and `start + d` at line 16
TimingStep(start, d) ==
    LET time == timeIntegration(start, start + d)
    IN  /\ measured' =
             [valid |-> TRUE,
              odd |-> ~measured.odd,
              firstSteps |-> IF measured.valid THEN measured.firstSteps
                             ELSE frame.steps,
              steps |-> frame.steps,
              initialSteps |-> frame.initialSteps,
              elapsed |-> d,
              time |-> time]
        /\ IF ~LoopDone(time, args.seconds) /\ time = 0
           THEN /\ frame' = [frame EXCEPT !.time = time]
                /\ Raised("ZeroDivisionError")
           ELSE /\ frame' = [frame EXCEPT
                               !.time = time,
                               !.steps = StepsAfterIteration(frame.steps, time,
                                                             args.seconds)]
                /\ pc' = IF LoopDone(time, args.seconds) THEN "report" ELSE "loop"
                /\ exc' = exc
        /\ UNCHANGED <<args, remaining, invoked, printed>>

TimingIteration ==
    /\ pc = "loop"
    /\ frame.steps <= MaxSteps
    /\ \E start \in ClockReadings, d \in ElapsedChoices : TimingStep(start, d)

\* the iteration when the measurement is positive and at least
\* proportional to the step count: time >= steps / CostDen ticks
TimingIterationProportional ==
    /\ pc = "loop"
    /\ frame.steps <= MaxSteps
    /\ \E start \in ClockReadings, d \in ElapsedChoices :
         /\ timeIntegration(start, start + d) > 0
         /\ timeIntegration(start, start + d) * CostDen >= frame.steps
         /\ TimingStep(start, d)

\* lines 178-179: the result lines, and the return to the module level
Report ==
    /\ pc = "report"
    /\ IF frame.time = 0
       THEN /\ printed' = Append(printed, IntegratedLine(frame.steps, frame.time))
            /\ Raised("ZeroDivisionError")
       ELSE /\ printed' = printed \o <<IntegratedLine(frame.steps, frame.time),
                                        NsPerDayLine(frame.dt, frame.steps, frame.time)>>
            /\ pc' = "main"
            /\ exc' = exc
    /\ UNCHANGED <<args, remaining, invoked, frame, measured>>

\* lines 211-212: except Exception as ex: print('Test failed: %s' % ex.message)
Handler ==
    /\ pc = "except"
    /\ IF HasMessage(exc)
       THEN /\ printed' = Append(printed, Line("Test failed: %s", <<>>))
            /\ exc' = "None"
            /\ pc' = "main"
       ELSE /\ printed' = printed
            /\ exc' = "AttributeError"
            /\ pc' = "abort"
    /\ UNCHANGED <<args, remaining, invoked, frame, measured>>

\* the end of the file is reached
Exit ==
    /\ pc = "main"
    /\ remaining = <<>>
    /\ pc' = "exit"
    /\ UNCHANGED <<args, remaining, invoked, frame, measured, printed, exc>>

Next == CallRunOneTest \/ TimingIteration \/ Report \/ Handler \/ Exit

Spec == Init /\ [][Next]_vars

\* the script under the hypothesis that every measurement is positive and
\* grows at least proportionally with the step count; the interpreter runs
\* the next statement whenever there is one
NextProportional ==
    CallRunOneTest \/ TimingIterationProportional \/ Report \/ Handler \/ Exit

\* every scenario, ensemble, step size, device string and target length, on
\* one platform and precision (the timing loop reads neither)
InitProportional ==
    /\ Init
    /\ args.platform = "CUDA"
    /\ args.precision = "single"

SpecProportional ==
    InitProportional /\ [][NextProportional]_vars /\ WF_vars(NextProportional)

----------------------------------------------------------------------------
(* Properties *)

GpuPlatforms == {"CUDA", "OpenCL"}

\* the values of the printed lines with format string `text`
PrintedVals(text) ==
    {printed[i].vals : i \in {j \in 1..Len(printed) : printed[j].text = text}}

IntegratedPrinted == PrintedVals("Integrated %d steps in %g seconds") # {}

ResultPrinted == PrintedVals("%g ns/day") # {}

ContextCreated == pc \in {"loop", "report"}

\* C1: the first measurement integrates 20 steps; the loop goes on only
\* after a measurement below 0.5*seconds and ends only after one at or above
\* it; the 'Integrated N steps in T seconds' line carries the step count and
\* the time of that last measurement.
C1_LoopEndsAtFirstLongMeasurement ==
    /\ measured.valid => measured.firstSteps = 20
    /\ pc = "loop" /\ measured.valid
         => 2 * measured.time < args.seconds * TicksPerSecond
    /\ pc = "report"
         => /\ measured.valid
            /\ 2 * measured.time >= args.seconds * TicksPerSecond
            /\ frame.steps = measured.steps
            /\ frame.time = measured.time
    /\ PrintedVals("Integrated %d steps in %g seconds")
         \subseteq {<<measured.steps, measured.time>>}

\* the loop ran more than one iteration and the 'Integrated' line is out
C1_Witness ==
    /\ IntegratedPrinted
    /\ measured.valid
    /\ measured.steps > measured.firstSteps

\* C2: when the scenario list is run (no --test), no exception raised by
\* runOneTest aborts the script.
C2_ExceptionNeverAborts == args.test = "None" => pc # "abort"

\* C3: when the script has ended, runOneTest has been invoked exactly once
\* for each of the eight default scenarios, in order (no --test), or exactly
\* once for the scenario of --test.
C3_ScenariosInvoked ==
    pc \in {"exit", "abort"}
      => invoked = IF args.test = "None"
                   THEN <<"gbsa", "rf", "pme", "apoa1rf", "apoa1pme",
                          "apoa1ljpme", "amoebagk", "amoebapme">>
                   ELSE <<args.test>>

\* C4: the value timeIntegration returns is the length end - start of the
\* timed interval.
C4_ReturnsElapsedTime == measured.valid => measured.time = measured.elapsed

\* C5: the 'ns/day' line is steps*86400/time of the last measurement times
\* the step size the Context's integrator was built with, in nanoseconds
\* (86400 s/day over 10^6 fs/ns is 54/625; time is in ticks), and that step
\* size is the one on the 'Step Size' line.
C5_ThroughputOfFinalMeasurement ==
    /\ ResultPrinted
         => PrintedVals("%g ns/day")
              = {<<frame.context.integ.dt * measured.steps * 54 * TicksPerSecond,
                   measured.time * 625>>}
    /\ ContextCreated \/ ResultPrinted
         => PrintedVals("Step Size: %g fs") = {<<frame.context.integ.dt>>}

\* results are out for a run of several iterations under --heavy-hydrogens
C5_Witness ==
    /\ ResultPrinted
    /\ measured.steps > measured.firstSteps
    /\ args.heavy
    /\ frame.dt = 5

\* C6: the ensemble selects the integrator: NVE gives VerletIntegrator
\* (MTSIntegrator for amoeba) without thermostat; NVT and NPT give, at 300 K,
\* MTSLangevinIntegrator for amoeba, else LangevinIntegrator under
\* --heavy-hydrogens, else LangevinMiddleIntegrator; one MonteCarloBarostat
\* under NPT and none otherwise.
C6_EnsembleSelectsIntegrator ==
    ContextCreated =>
      LET integ == frame.context.integ
          isAmoeba == frame.testName \in {"amoebagk", "amoebapme"}
      IN  /\ args.ensemble = "NVE"
               => /\ integ.kind = IF isAmoeba THEN "MTSIntegrator"
                                  ELSE "VerletIntegrator"
                  /\ integ.thermostat = {}
          /\ args.ensemble # "NVE"
               => /\ integ.kind = IF isAmoeba THEN "MTSLangevinIntegrator"
                                  ELSE IF args.heavy THEN "LangevinIntegrator"
                                  ELSE "LangevinMiddleIntegrator"
                  /\ \A t \in integ.thermostat : t[1] = 300
                  /\ integ.thermostat # {}
          /\ frame.context.system.barostats
               = IF args.ensemble = "NPT" THEN 1 ELSE 0

\* C7: under --heavy-hydrogens the system is created with a hydrogenMass and
\* the integrator's step is larger than the scenario's step without the
\* option; and the hydrogenMass assigned in runOneTest is the one the system
\* is created with.
C7_HeavyHydrogensRepartition ==
    ContextCreated =>
      /\ args.heavy
           => /\ frame.context.system.hydrogenMass # "None"
              /\ frame.context.integ.dt
                   > Scenario(frame.testName, [args EXCEPT !.heavy = FALSE]).integ.dt
      /\ frame.context.system.hydrogenMass = frame.hydrogenMass

\* C8: with positive --seconds, positive measurements that grow at least
\* proportionally with the step count bring every timing loop to its result
\* lines, and the step count never reaches 0.
C8_TimingLoopTerminates ==
    /\ [](pc = "loop" => frame.steps > 0)
    /\ (pc = "loop" /\ args.seconds > 0) ~> ResultPrinted

\* results are out after a loop of more than one iteration, --seconds > 0
C8_Witness ==
    /\ ResultPrinted
    /\ args.seconds > 0
    /\ measured.steps > measured.firstSteps

\* C9: in the loop the step count is at least 20, and after a measurement
\* that does not end the loop it is at least twice the count measured.
C9_StepsAtLeastDouble ==
    /\ pc \in {"loop", "report"} => frame.steps >= 20
    /\ pc = "loop" /\ measured.valid
         => /\ measured.time > 0
            /\ frame.steps >= 2 * measured.steps
            /\ frame.steps > measured.steps

\* the loop goes on after its second measurement
C9_Witness ==
    /\ pc = "loop"
    /\ measured.valid
    /\ measured.steps > measured.firstSteps

\* C10: DeviceIndex is set iff --device is given on CUDA or OpenCL, Precision
\* iff the platform is CUDA or OpenCL, no properties are passed on other
\* platforms; timeIntegration gets 250 warm-up steps iff DeviceIndex is set
\* and the device string has a comma or a space, else 5.
C10_DeviceAndPrecisionOnGpuOnly ==
    ContextCreated =>
      LET ctx == frame.context
          gpu == args.platform \in GpuPlatforms
          several == /\ "DeviceIndex" \in ctx.properties.keys
                     /\ \E i \in 1..Len(args.device.chars) :
                          args.device.chars[i] \in {",", " "}
      IN  /\ "DeviceIndex" \in ctx.properties.keys <=> (args.device.given /\ gpu)
          /\ "DeviceIndex" \in ctx.properties.keys
               => ctx.properties.DeviceIndex = args.device.chars
          /\ "Precision" \in ctx.properties.keys <=> gpu
          /\ "Precision" \in ctx.properties.keys
               => ctx.properties.Precision = args.precision
          /\ ~gpu => ~ctx.withProperties
          /\ gpu => ctx.withProperties
          /\ measured.valid
               => measured.initialSteps = IF several THEN 250 ELSE 5

\* a measurement was made with the warm-up of several devices
C10_Witness ==
    /\ ContextCreated
    /\ measured.valid
    /\ measured.initialSteps = 250
    /\ "Precision" \in frame.context.properties.keys

====
